---- MODULE Spec2Model ----
(***************************************************************************)
(* Model of DropboxManager (src/dropbox_manager.py): the paginated fetch   *)
(* generator _fetch_team_events and its consumer process_team_events.      *)
(*                                                                         *)
(* Strings are sequences of one-character strings, so that the tag         *)
(* extraction str(event.event_type).split("'")[1] is computed as Python    *)
(* computes it.  Optional values (cursor, RateLimitError.backoff) are      *)
(* sequences of length 0 (None) or 1.  A Counter is the sequence of its    *)
(* items in insertion order.  The remote client is the environment: it     *)
(* answers a request with a page, a RateLimitError, an ApiError or another *)
(* exception; okLog, lastReq, nReq and nThrottled record what it did.      *)
(***************************************************************************)
EXTENDS Integers, Sequences, FiniteSets, TLC

VARIABLES
    pc,                \* position of the single control flow
    lookback_minutes,  \* argument of process_team_events
    now,               \* datetime.now(utc) read at line 70
    start_time,        \* local of _fetch_team_events
    cursor,            \* local of _fetch_team_events
    has_more,          \* local of _fetch_team_events
    result,            \* page held by the generator while it is drained
    idx,               \* number of events of result already yielded
    wait_time,         \* local of the RateLimitError handler
    count,             \* local of process_team_events
    counter,           \* local of process_team_events (Counter)
    log,               \* logger.info / logger.critical records, in order
    warnings,          \* number of logger.warning records
    errors,            \* number of logger.error records
    nSlept,            \* number of completed time.sleep calls
    lastSleep,         \* duration of the latest completed time.sleep, if any
    raisedErr,         \* exception that left process_team_events, if any
    okLog,             \* page number and has_more of the pages the remote client returned
    returned,          \* the events of those pages, concatenated in order
    lastReq,           \* the latest request to the remote client, with its outcome
    nReq,              \* number of requests made to the remote client
    nThrottled         \* number of requests answered by RateLimitError

vars == <<pc, lookback_minutes, now, start_time, cursor, has_more, result,
          idx, wait_time, count, counter, log, warnings, errors, nSlept, lastSleep,
          raisedErr, okLog, returned, lastReq, nReq, nThrottled>>

----------------------------------------------------------------------------
(* Bounds *)

MaxPages == 2
MaxPageLen == 2
MaxEvents == 4
MaxThrottles == 2

----------------------------------------------------------------------------
(* Values *)

None == <<>>
Some(v) == <<v>>

Quote == "'"

\* str(event.event_type) of the events the remote can return: a type with
\* tag a, one with tag b, one without any quote, one with an empty tag.
EventTypes ==
    { <<"t", Quote, "a", Quote>>,
      <<"t", Quote, "b", Quote>>,
      <<"t">>,
      <<"t", Quote, Quote>> }

\* RateLimitError.backoff: absent, zero, positive, negative.
Backoffs == { None, Some(0), Some(3), Some(-1) }

\* lookback_minutes: a negative, a zero and a positive duration
Lookbacks == {-1, 0, 1}

Nows == {10}

\* Exceptions of a client call that are neither RateLimitError nor ApiError.
OtherErrors == {"transport", "timeout"}

DefaultWait == 5

RECURSIVE SeqsUpTo(_, _)
SeqsUpTo(S, n) ==
    IF n = 0 THEN { <<>> }
    ELSE LET shorter == SeqsUpTo(S, n - 1)
         IN  shorter \cup { Append(s, x) : s \in { t \in shorter : Len(t) = n - 1 }, x \in S }

Pages == SeqsUpTo(EventTypes, MaxPageLen)

NoPage == [events |-> <<>>, cursor |-> None, has_more |-> FALSE]

Rec(kind, ev, n) == [kind |-> kind, ev |-> ev, n |-> n]

----------------------------------------------------------------------------
(* Pure helpers *)

\* "'" in s
Contains(s, c) == \E i \in 1..Len(s) : s[i] = c

FirstIndex(s, c) == CHOOSE i \in 1..Len(s) : s[i] = c /\ \A j \in 1..(i - 1) : s[j] # c

\* s.split(c)
RECURSIVE Split(_, _)
Split(s, c) ==
    IF ~Contains(s, c) THEN << s >>
    ELSE LET i == FirstIndex(s, c)
         IN  << SubSeq(s, 1, i - 1) >> \o Split(SubSeq(s, i + 1, Len(s)), c)

\* lines 128-129: the condition and the extracted tag
HasTag(event_type) == Contains(event_type, Quote)
EventTag(event_type) == Split(event_type, Quote)[2]

\* Counter: key lookup and counter[tag] += 1 (a new key is inserted last)
KeyIndex(c, tag) == { i \in 1..Len(c) : c[i][1] = tag }

CounterAdd(c, tag) ==
    IF KeyIndex(c, tag) = {}
    THEN Append(c, <<tag, 1>>)
    ELSE [i \in 1..Len(c) |-> IF c[i][1] = tag THEN <<tag, c[i][2] + 1>> ELSE c[i]]

\* lines 127-130
Tally(c, event_type) ==
    IF HasTag(event_type) THEN CounterAdd(c, EventTag(event_type)) ELSE c

\* counter.most_common(1)[0]: heapq.nlargest(1, items, key=count) is
\* max(items, key=count), the first item of maximal count in dict order.
RECURSIVE MaxFrom(_, _, _)
MaxFrom(c, i, best) ==
    IF i > Len(c) THEN best
    ELSE MaxFrom(c, i + 1, IF c[i][2] > best[2] THEN c[i] ELSE best)

\* faulty variant: the first inserted item, whatever its count
MostCommonFirstInserted(c) == c[1]

\* faulty variant: the last item of maximal count in dict order
MostCommonLastMax(c) ==
    c[CHOOSE i \in 1..Len(c) :
         /\ \A j \in 1..Len(c) : c[j][2] <= c[i][2]
         /\ \A j \in (i + 1)..Len(c) : c[j][2] < c[i][2]]

MostCommon(c) == MaxFrom(c, 2, c[1])

\* line 91: e.backoff or 5
WaitTime(backoff) ==
    IF backoff = None \/ backoff[1] = 0 THEN DefaultWait ELSE backoff[1]

\* line 75: while has_more
\* faulty variant: while True
LoopForever(hm) == TRUE

LoopCond(hm) == hm

\* line 83: the i-th element produced by `yield from events`
\* faulty variant: the page is drained from its end
YieldReversed(events, i) == events[Len(events) + 1 - i]

YieldFrom(events, i) == events[i]

----------------------------------------------------------------------------
(* The remote client (self.client), as seen through lines 79 and 81 *)

ReqKind == IF cursor = None THEN "initial" ELSE "continue"
ReqArg == IF cursor = None THEN start_time ELSE cursor[1]

\* position of the page a query asks for
PageNo == IF cursor = None THEN 1 ELSE cursor[1] + 1

NoReq == [kind |-> "none", arg |-> 0, page |-> 0, out |-> "none",
          backoff |-> None, prev |-> "none"]

Req(out, backoff) ==
    [kind |-> ReqKind, arg |-> ReqArg, page |-> PageNo, out |-> out,
     backoff |-> backoff, prev |-> lastReq.out]

----------------------------------------------------------------------------
(* Initial state and actions *)

Init ==
    /\ pc = "start"
    /\ lookback_minutes \in Lookbacks
    /\ now \in Nows
    /\ start_time = 0
    /\ cursor = None
    /\ has_more = FALSE
    /\ result = NoPage
    /\ idx = 0
    /\ wait_time = 0
    /\ count = 0
    /\ counter = <<>>
    /\ log = <<>>
    /\ warnings = 0
    /\ errors = 0
    /\ nSlept = 0
    /\ lastSleep = None
    /\ raisedErr = ""
    /\ okLog = <<>>
    /\ returned = <<>>
    /\ lastReq = NoReq
    /\ nReq = 0
    /\ nThrottled = 0

\* lines 108-113 and 70-73: the call, and the generator's first resumption
Begin ==
    /\ pc = "start"
    /\ count' = 0
    /\ counter' = <<>>
    /\ start_time' = now - lookback_minutes
    /\ cursor' = None
    /\ has_more' = TRUE
    /\ pc' = "loop"
    /\ UNCHANGED <<lookback_minutes, now, result, idx, wait_time, log, warnings,
                   errors, nSlept, lastSleep, raisedErr, okLog, returned,
                   lastReq, nReq, nThrottled>>

\* lines 75-81: the request returns a page
RequestOk ==
    /\ pc = "loop"
    /\ LoopCond(has_more)
    /\ PageNo <= MaxPages
    /\ \E events \in Pages, hm \in BOOLEAN :
          /\ Len(returned) + Len(events) <= MaxEvents
          /\ (PageNo = MaxPages => ~hm)
          /\ result' = [events |-> events, cursor |-> Some(PageNo), has_more |-> hm]
          /\ okLog' = Append(okLog, [page |-> PageNo, hm |-> hm])
          /\ returned' = returned \o events
    /\ lastReq' = Req("ok", None)
    /\ nReq' = nReq + 1
    /\ idx' = 0
    /\ pc' = "yielding"
    /\ UNCHANGED <<lookback_minutes, now, start_time, cursor, has_more,
                   wait_time, count, counter, log, warnings, errors, nSlept, lastSleep,
                   raisedErr, nThrottled>>

\* faulty variant: the event is counted and tallied but no record of it is
\* logged
YieldUnlogged ==
    /\ pc = "yielding"
    /\ idx < Len(result.events)
    /\ LET event == YieldFrom(result.events, idx + 1)
       IN  /\ count' = count + 1
           /\ log' = log
           /\ counter' = Tally(counter, event)
    /\ idx' = idx + 1
    /\ UNCHANGED <<pc, lookback_minutes, now, start_time, cursor, has_more,
                   result, wait_time, warnings, errors, nSlept, lastSleep, raisedErr,
                   okLog, returned, lastReq, nReq, nThrottled>>

\* line 83 and lines 114-130: one event is yielded and the loop body runs
Yield ==
    /\ pc = "yielding"
    /\ idx < Len(result.events)
    /\ LET event == YieldFrom(result.events, idx + 1)
       IN  /\ count' = count + 1
           /\ log' = Append(log, Rec("event", event, 0))
           /\ counter' = Tally(counter, event)
    /\ idx' = idx + 1
    /\ UNCHANGED <<pc, lookback_minutes, now, start_time, cursor, has_more,
                   result, wait_time, warnings, errors, nSlept, lastSleep, raisedErr,
                   okLog, returned, lastReq, nReq, nThrottled>>

\* faulty variant: lines 86-87 run, and the next request follows, before
\* the page is drained
AdvanceEarly ==
    /\ pc = "yielding"
    /\ cursor' = result.cursor
    /\ has_more' = result.has_more
    /\ pc' = "loop"
    /\ UNCHANGED <<lookback_minutes, now, start_time, result, idx, wait_time,
                   count, counter, log, warnings, errors, nSlept, lastSleep, raisedErr,
                   okLog, returned, lastReq, nReq, nThrottled>>

\* faulty variant: line 86 is skipped, the cursor of the drained page is
\* not stored
AdvanceKeepsCursor ==
    /\ pc = "yielding"
    /\ idx = Len(result.events)
    /\ cursor' = cursor
    /\ has_more' = result.has_more
    /\ pc' = "loop"
    /\ UNCHANGED <<lookback_minutes, now, start_time, result, idx, wait_time,
                   count, counter, log, warnings, errors, nSlept, lastSleep, raisedErr,
                   okLog, returned, lastReq, nReq, nThrottled>>

\* lines 86-87: the page is drained, pagination variables are updated
Advance ==
    /\ pc = "yielding"
    /\ idx = Len(result.events)
    /\ cursor' = result.cursor
    /\ has_more' = result.has_more
    /\ pc' = "loop"
    /\ UNCHANGED <<lookback_minutes, now, start_time, result, idx, wait_time,
                   count, counter, log, warnings, errors, nSlept, lastSleep, raisedErr,
                   okLog, returned, lastReq, nReq, nThrottled>>

\* faulty variant: the handler moves on to the page after the throttled one
RateLimitedSkip ==
    /\ pc = "loop"
    /\ LoopCond(has_more)
    /\ nThrottled < MaxThrottles
    /\ \E backoff \in Backoffs :
          /\ wait_time' = WaitTime(backoff)
          /\ lastReq' = Req("throttled", backoff)
    /\ nReq' = nReq + 1
    /\ nThrottled' = nThrottled + 1
    /\ warnings' = warnings + 1
    /\ cursor' = Some(PageNo)
    /\ pc' = "sleep"
    /\ UNCHANGED <<lookback_minutes, now, start_time, has_more, result,
                   idx, count, counter, log, errors, nSlept, lastSleep, raisedErr, okLog, returned>>

\* faulty variant: the handler forgets the cursor and restarts the query
RateLimitedRestart ==
    /\ pc = "loop"
    /\ LoopCond(has_more)
    /\ nThrottled < MaxThrottles
    /\ \E backoff \in Backoffs :
          /\ wait_time' = WaitTime(backoff)
          /\ lastReq' = Req("throttled", backoff)
    /\ nReq' = nReq + 1
    /\ nThrottled' = nThrottled + 1
    /\ warnings' = warnings + 1
    /\ cursor' = None
    /\ pc' = "sleep"
    /\ UNCHANGED <<lookback_minutes, now, start_time, has_more, result,
                   idx, count, counter, log, errors, nSlept, lastSleep, raisedErr, okLog, returned>>

\* lines 89-92: the request raises RateLimitError
RateLimited ==
    /\ pc = "loop"
    /\ LoopCond(has_more)
    /\ nThrottled < MaxThrottles
    /\ \E backoff \in Backoffs :
          /\ wait_time' = WaitTime(backoff)
          /\ lastReq' = Req("throttled", backoff)
    /\ nReq' = nReq + 1
    /\ nThrottled' = nThrottled + 1
    /\ warnings' = warnings + 1
    /\ pc' = "sleep"
    /\ UNCHANGED <<lookback_minutes, now, start_time, cursor, has_more, result,
                   idx, count, counter, log, errors, nSlept, lastSleep, raisedErr, okLog, returned>>

\* faulty variant: after the pause the handler pauses again instead of
\* going back to the loop condition
SleepAgain ==
    /\ pc = "sleep"
    /\ wait_time >= 0
    /\ nSlept' = IF nSlept < nThrottled THEN nSlept + 1 ELSE nSlept
    /\ lastSleep' = Some(wait_time)
    /\ pc' = "sleep"
    /\ UNCHANGED <<lookback_minutes, now, start_time, cursor, has_more, result,
                   idx, wait_time, count, counter, log, warnings, errors,
                   raisedErr, okLog, returned, lastReq, nReq, nThrottled>>

\* lines 93-94: time.sleep(wait_time) returns; continue
Sleep ==
    /\ pc = "sleep"
    /\ wait_time >= 0
    /\ nSlept' = nSlept + 1
    /\ lastSleep' = Some(wait_time)
    /\ pc' = "loop"
    /\ UNCHANGED <<lookback_minutes, now, start_time, cursor, has_more, result,
                   idx, wait_time, count, counter, log, warnings, errors,
                   raisedErr, okLog, returned, lastReq, nReq, nThrottled>>

\* line 93 and lines 139-141: time.sleep raises ValueError on a negative
\* length; the exception leaves the generator and process_team_events
SleepRaises ==
    /\ pc = "sleep"
    /\ wait_time < 0
    /\ log' = Append(log, Rec("critical", <<>>, count))
    /\ raisedErr' = "ValueError"
    /\ pc' = "raised"
    /\ UNCHANGED <<lookback_minutes, now, start_time, cursor, has_more, result,
                   idx, wait_time, count, counter, warnings, errors, nSlept, lastSleep,
                   okLog, returned, lastReq, nReq, nThrottled>>

\* lines 96-98: the request raises ApiError; the generator logs and breaks
RequestApiError ==
    /\ pc = "loop"
    /\ LoopCond(has_more)
    /\ lastReq' = Req("api_error", None)
    /\ nReq' = nReq + 1
    /\ errors' = errors + 1
    /\ pc' = "exhausted"
    /\ UNCHANGED <<lookback_minutes, now, start_time, cursor, has_more, result,
                   idx, wait_time, count, counter, log, warnings, nSlept, lastSleep,
                   raisedErr, okLog, returned, nThrottled>>

\* lines 79/81 and 139-141: the request raises any other exception, which
\* leaves the generator and is logged and re-raised by process_team_events
RequestOtherError ==
    /\ pc = "loop"
    /\ LoopCond(has_more)
    /\ \E err \in OtherErrors :
          /\ lastReq' = Req(err, None)
          /\ raisedErr' = err
    /\ nReq' = nReq + 1
    /\ log' = Append(log, Rec("critical", <<>>, count))
    /\ pc' = "raised"
    /\ UNCHANGED <<lookback_minutes, now, start_time, cursor, has_more, result,
                   idx, wait_time, count, counter, warnings, errors, nSlept, lastSleep,
                   okLog, returned, nThrottled>>

\* line 75: the loop condition is false, the generator returns
LoopExit ==
    /\ pc = "loop"
    /\ ~LoopCond(has_more)
    /\ pc' = "exhausted"
    /\ UNCHANGED <<lookback_minutes, now, start_time, cursor, has_more, result,
                   idx, wait_time, count, counter, log, warnings, errors, nSlept, lastSleep,
                   raisedErr, okLog, returned, lastReq, nReq, nThrottled>>

\* faulty variant: an empty tally is summarised as a winner with count 0
SummaryDegenerate ==
    /\ pc = "exhausted"
    /\ log' = Append(log, IF counter # <<>>
                          THEN Rec("summary", MostCommon(counter)[1], MostCommon(counter)[2])
                          ELSE Rec("summary", <<>>, 0))
    /\ pc' = "returned"
    /\ UNCHANGED <<lookback_minutes, now, start_time, cursor, has_more, result,
                   idx, wait_time, count, counter, warnings, errors, nSlept, lastSleep,
                   raisedErr, okLog, returned, lastReq, nReq, nThrottled>>

\* lines 133-137: the summary, then process_team_events returns
Summary ==
    /\ pc = "exhausted"
    /\ log' = Append(log, IF counter # <<>>
                          THEN Rec("summary", MostCommon(counter)[1], MostCommon(counter)[2])
                          ELSE Rec("no_events", <<>>, 0))
    /\ pc' = "returned"
    /\ UNCHANGED <<lookback_minutes, now, start_time, cursor, has_more, result,
                   idx, wait_time, count, counter, warnings, errors, nSlept, lastSleep,
                   raisedErr, okLog, returned, lastReq, nReq, nThrottled>>

Next ==
    \/ Begin
    \/ RequestOk
    \/ Yield
    \/ Advance
    \/ RateLimited
    \/ Sleep
    \/ SleepRaises
    \/ RequestApiError
    \/ RequestOtherError
    \/ LoopExit
    \/ Summary

Spec == Init /\ [][Next]_vars

\* the call with the default-sign window of one minute; the window length
\* plays no part in the control flow of lines 75-98
FairInit == Init /\ lookback_minutes = 1

\* the interpreter keeps executing the call until it returns or raises, and
\* every request the loop issues is answered
FairSpec == FairInit /\ [][Next]_vars /\ WF_vars(Next)

----------------------------------------------------------------------------
(* Observations *)

\* the events forwarded to the logger (line 125), in order
RECURSIVE Forwarded(_)
Forwarded(l) ==
    IF l = <<>> THEN <<>>
    ELSE (IF Head(l).kind = "event" THEN << Head(l).ev >> ELSE <<>>) \o Forwarded(Tail(l))

\* the events of the page being drained that are not yet yielded
Pending == IF pc = "yielding" THEN SubSeq(result.events, idx + 1, Len(result.events)) ELSE <<>>

OkAttempts(p) == { i \in 1..Len(okLog) : okLog[i].page = p }

RemoteFailures == {"api_error"} \cup OtherErrors

RunEnded == pc \in {"returned", "raised"}

Last(s) == s[Len(s)]

----------------------------------------------------------------------------
(* C1: the events forwarded so far, followed by the not yet yielded events
   of the page being drained, are exactly the in-order concatenation of the
   events of the pages the remote returned successfully; when no page is
   being drained the two sequences are equal. *)
C1_OrderPreserved ==
    /\ Forwarded(log) \o Pending = returned
    /\ count = Len(Forwarded(log))

C1_Witness ==
    /\ pc = "returned"
    /\ Len(okLog) = 2
    /\ Len(result.events) = 2
    /\ Len(Forwarded(log)) = 4
    /\ \A i, j \in 1..4 : i # j => Forwarded(log)[i] # Forwarded(log)[j]

(* C2: whatever throttled attempts are made, every logical page has at
   most one successful attempt, the pages that succeeded are the first k
   pages in order, every request is either one of those successes, a
   throttled attempt or a final failure, and the forwarded events are the
   events of the successful attempts, each exactly once. *)
C2_ThrottledContributesNothing ==
    /\ \A p \in 1..(MaxPages + 1) : Cardinality(OkAttempts(p)) <= 1
    /\ \A i \in 1..Len(okLog) : okLog[i].page = i
    /\ nReq = Len(okLog) + nThrottled + (IF lastReq.out \in RemoteFailures THEN 1 ELSE 0)
    /\ Forwarded(log) \o Pending = returned

C2_Witness ==
    /\ pc = "returned"
    /\ nThrottled = 2
    /\ nSlept = 2
    /\ lastReq.kind = "continue"
    /\ lastReq.out = "ok"
    /\ lastReq.prev = "throttled"
    /\ result.events # <<>>
    /\ Len(Forwarded(log)) > Len(result.events)

(* C3: a step of the throttling handler (the RateLimitError branch and its
   sleep) leaves cursor, has_more, start_time, count and the tally
   unchanged, and the request that follows a throttled request is the same
   query for the same page. *)
C3_ThrottleFrameAndRetry ==
    [][ /\ (pc = "sleep" \/ pc' = "sleep")
           => UNCHANGED <<cursor, has_more, start_time, count, counter>>
        /\ (lastReq.out = "throttled" /\ nReq' = nReq + 1)
           => /\ lastReq'.kind = lastReq.kind
              /\ lastReq'.arg = lastReq.arg
              /\ lastReq'.page = lastReq.page ]_vars

C3_Witness ==
    /\ lastReq.kind = "continue"
    /\ lastReq.out = "ok"
    /\ lastReq.prev = "throttled"
    /\ lastReq.page = 2
    /\ nSlept = 2

(* C4: once a request has failed with an API error, a transport error or a
   timeout, the run does not return normally: it ends with the error raised
   to the caller. *)
C4_FailureSurfaces ==
    lastReq.out \in RemoteFailures
       => /\ pc # "returned"
          /\ (RunEnded => raisedErr \in RemoteFailures)

(* C5: when the run has ended after a non-recoverable remote failure that
   followed k yielded events, the k events were forwarded, count is k, the
   tally is the tally of those k events, and the partial count k was logged
   before the error was raised to the caller. *)
RECURSIVE TallyAll(_, _)
TallyAll(c, events) ==
    IF events = <<>> THEN c ELSE TallyAll(Tally(c, Head(events)), Tail(events))

C5_PartialProgressReported ==
    (lastReq.out \in RemoteFailures /\ RunEnded)
       => /\ Forwarded(log) = returned
          /\ count = Len(returned)
          /\ counter = TallyAll(<<>>, returned)
          /\ Last(log) = Rec("critical", <<>>, count)
          /\ pc = "raised"

(* C6: no error reaches the caller as a consequence of a throttling
   signal: a run never ends raised right after a throttled request. *)
C6_ThrottleAbsorbed ==
    pc = "raised" => lastReq.out # "throttled"

(* C7: once the remote has returned a page with has_more = false or a
   request has failed non-recoverably, no further request is issued, and
   once that last page is drained no further event is forwarded. *)
Terminal ==
    \/ lastReq.out \in RemoteFailures
    \/ \E i \in 1..Len(okLog) : ~okLog[i].hm

C7_DoneAbsorbing ==
    [][ Terminal => /\ nReq' = nReq
                    /\ (pc # "yielding" => Forwarded(log') = Forwarded(log)) ]_vars

C7_Witness ==
    /\ pc = "returned"
    /\ Len(okLog) >= 2
    /\ ~Last(okLog).hm
    /\ lastReq.out = "ok"
    /\ result.events # <<>>

(* C8: once a throttling signal is handled a pause has completed for it,
   of the suggested backoff if that is present and positive and of 5
   otherwise. *)
ExpectedPause(backoff) ==
    IF backoff # None /\ backoff[1] > 0 THEN backoff[1] ELSE 5

C8_PauseMatchesBackoff ==
    (lastReq.out = "throttled" /\ pc # "sleep")
       => /\ nSlept = nThrottled
          /\ lastSleep = Some(ExpectedPause(lastReq.backoff))

(* C9: the counts of the tally sum to the number of forwarded events that
   have a non-empty extractable tag, and the empty tag is never a key. *)
RECURSIVE SumCounts(_)
SumCounts(c) == IF c = <<>> THEN 0 ELSE Head(c)[2] + SumCounts(Tail(c))

HasNonEmptyTag(event_type) == HasTag(event_type) /\ EventTag(event_type) # <<>>

C9_TallySumsToTagged ==
    /\ SumCounts(counter) = Len(SelectSeq(Forwarded(log), HasNonEmptyTag))
    /\ \A i \in 1..Len(counter) : counter[i][1] # <<>>

(* C10: when the run has returned with a non-empty tally, the last record
   is a summary naming a tag whose tally count is at least the count of
   every tag, and the reported number is that tag's tally count, which is
   the number of forwarded events carrying that tag. *)
Carrying(tag) ==
    LET carries(e) == HasTag(e) /\ EventTag(e) = tag
    IN  Len(SelectSeq(Forwarded(log), carries))

C10_SummaryIsMaximum ==
    (pc = "returned" /\ counter # <<>>)
       => /\ Last(log).kind = "summary"
          /\ \E i \in 1..Len(counter) :
                /\ counter[i][1] = Last(log).ev
                /\ counter[i][2] = Last(log).n
          /\ \A i \in 1..Len(counter) : counter[i][2] <= Last(log).n
          /\ Last(log).n = Carrying(Last(log).ev)

C10_Witness ==
    /\ pc = "returned"
    /\ Len(counter) = 2
    /\ counter[1][2] = 1
    /\ counter[2][2] = 2
    /\ Last(log) = Rec("summary", <<"b">>, 2)

----------------------------------------------------------------------------
(* The tags of the forwarded events, read off the stream itself *)

RECURSIVE TagStream(_)
TagStream(events) ==
    IF events = <<>> THEN <<>>
    ELSE (IF HasTag(Head(events)) THEN << EventTag(Head(events)) >> ELSE <<>>)
         \o TagStream(Tail(events))

Tags == TagStream(Forwarded(log))

\* occurrences of tag t among the first i tags
Occurrences(ts, t, i) == Cardinality({ j \in 1..i : ts[j] = t })

TagSet(ts) == { ts[j] : j \in 1..Len(ts) }

FinalCount(ts, t) == Occurrences(ts, t, Len(ts))

MaxCount(ts) ==
    CHOOSE m \in 0..Len(ts) :
        /\ \A t \in TagSet(ts) : FinalCount(ts, t) <= m
        /\ (ts # <<>> => \E t \in TagSet(ts) : FinalCount(ts, t) = m)

Tied(ts) == { t \in TagSet(ts) : FinalCount(ts, t) = MaxCount(ts) }

FirstSeen(ts, t) == CHOOSE j \in 1..Len(ts) : ts[j] = t /\ \A k \in 1..(j - 1) : ts[k] # t

\* position at which the running count of t reaches the final maximum
ReachedMax(ts, t) ==
    CHOOSE j \in 1..Len(ts) :
        /\ Occurrences(ts, t, j) = MaxCount(ts)
        /\ Occurrences(ts, t, j - 1) < MaxCount(ts)

FirstToReachMax(ts) ==
    CHOOSE t \in Tied(ts) : \A u \in Tied(ts) : ReachedMax(ts, t) <= ReachedMax(ts, u)

FirstSeenTied(ts) ==
    CHOOSE t \in Tied(ts) : \A u \in Tied(ts) : FirstSeen(ts, t) <= FirstSeen(ts, u)

TieAtReturn == pc = "returned" /\ Cardinality(Tied(Tags)) >= 2

(* C11, as stated: when several tags share the highest final count, the
   reported tag is the one whose running count reached that maximum
   earliest in the stream. *)
C11_FirstToReachMaxWins ==
    TieAtReturn => Last(log).ev = FirstToReachMax(Tags)

(* C11, amended: when several tags share the highest final count, the
   reported tag is one of them; it is the tag that reached the maximum
   earliest if that tag is also the tied tag seen first, and otherwise it
   is the tied tag seen first. *)
C11_FirstToReachMaxIfFirstSeen ==
    TieAtReturn
       => /\ Last(log).kind = "summary"
          /\ Last(log).ev \in Tied(Tags)
          /\ Last(log).n = MaxCount(Tags)
          /\ IF FirstToReachMax(Tags) = FirstSeenTied(Tags)
             THEN Last(log).ev = FirstToReachMax(Tags)
             ELSE Last(log).ev = FirstSeenTied(Tags)

\* tags [a, b, a, b]: a is reported
C11_Witness ==
    /\ pc = "returned"
    /\ Tags = << <<"a">>, <<"b">>, <<"a">>, <<"b">> >>
    /\ Last(log) = Rec("summary", <<"a">>, 2)

(* C12: when several tags share the highest final count, the reported tag
   is the one whose first occurrence in the stream comes earliest. *)
C12_FirstSeenWins ==
    TieAtReturn => Last(log).ev = FirstSeenTied(Tags)

\* tags [a, b, b, a]: a is reported although b reached 2 first
C12_Witness ==
    /\ pc = "returned"
    /\ Tags = << <<"a">>, <<"b">>, <<"b">>, <<"a">> >>
    /\ FirstToReachMax(Tags) = <<"b">>
    /\ Last(log) = Rec("summary", <<"a">>, 2)

(* C13: a run that returns after a stream of zero events ends with the
   no-events record, and every summary record that names a tag carries a
   count of at least 1. *)
C13_NoDegenerateWinner ==
    /\ (pc = "returned" /\ count = 0) => Last(log) = Rec("no_events", <<>>, 0)
    /\ \A i \in 1..Len(log) : log[i].kind = "summary" => log[i].n >= 1

C13_Witness ==
    /\ pc = "returned"
    /\ count = 0
    /\ Len(okLog) = 2
    /\ lastReq.out = "ok"
    /\ log = << Rec("no_events", <<>>, 0) >>

(* C14: for a lookback of at least 0 the window start is not after the
   time read at construction, and for a negative lookback no remote query
   is issued and the run ends with a configuration error. *)
C14_WindowValidated ==
    /\ (lookback_minutes >= 0 /\ pc # "start") => start_time <= now
    /\ lookback_minutes < 0
          => /\ nReq = 0
             /\ (RunEnded => raisedErr = "DropboxConfigError")

(* C15: when the remote throttles finitely often in a row and the pages
   end or a request fails, the run eventually ends (the summary is logged
   or the error is raised), and at its end every event of every page that
   was returned has been processed. *)
C15_RunTerminates ==
    /\ <>RunEnded
    /\ [](RunEnded => Forwarded(log) = returned /\ count = Len(returned))

C15_Witness ==
    /\ pc = "returned"
    /\ nThrottled = MaxThrottles
    /\ nSlept = MaxThrottles
    /\ Len(okLog) = 2
    /\ Len(returned) >= 2
    /\ Forwarded(log) = returned

(* C16: a throttling signal never ends the fetch: while the last answer is
   a throttling signal the run has neither ended nor left the loop, the
   loop condition still holds, and once the handler is back at the loop
   condition every signal so far has been followed by a pause, so the
   same request is issued again. *)
C16_ThrottleNeverEnds ==
    lastReq.out = "throttled"
       => /\ pc \in {"sleep", "loop"}
          /\ has_more
          /\ (pc = "loop" => nSlept = nThrottled)
          /\ (pc = "sleep" => nSlept = nThrottled - 1)

\* the number of pages that had been returned when the latest request was
\* issued
OkBefore == Len(okLog) - (IF lastReq.out = "ok" THEN 1 ELSE 0)

(* C17: the windowed query (with start_time) is the request issued exactly
   while no page has been returned, at most one windowed query is answered
   with a page, and every continuation request carries the cursor of the
   most recently returned page, whatever throttled or failed attempts lie
   in between. *)
C17_RequestSelection ==
    /\ lastReq.kind # "none"
          => /\ (lastReq.kind = "initial") = (OkBefore = 0)
             /\ lastReq.kind = "initial" => lastReq.arg = start_time
             /\ lastReq.kind = "continue" => lastReq.arg = okLog[OkBefore].page
    /\ Cardinality(OkAttempts(1)) <= 1
    /\ \A i \in 1..Len(okLog) : okLog[i].page = i

C17_Witness ==
    /\ lastReq.kind = "continue"
    /\ lastReq.prev = "throttled"
    /\ lastReq.out = "ok"
    /\ nThrottled = MaxThrottles
    /\ Len(okLog) = 2
    /\ lastReq.arg = okLog[1].page

(* C18: a request is issued only when every event of every page returned
   so far has been forwarded to the logger and tallied: at each step that
   issues a request, the number of events processed equals the number of
   events in the returned pages, the forwarded events are those events in
   order, the tally is the tally of those events, and no event of the
   current page is pending. *)
C18_LazyStreaming ==
    [][nReq' = nReq + 1
          => /\ count = Len(returned)
             /\ Forwarded(log) = returned
             /\ counter = TallyAll(<<>>, returned)
             /\ Pending = <<>>]_vars

C18_Witness ==
    /\ nReq = 2
    /\ lastReq.kind = "continue"
    /\ Len(okLog) = 1
    /\ Len(returned) = MaxPageLen
    /\ count = MaxPageLen

\* the kinds of record that close a run that returns
SummaryKinds == {"summary", "no_events"}

\* positions of the log that hold a record of one of the kinds ks
RecsOf(ks) == { i \in 1..Len(log) : log[i].kind \in ks }

(* C19 as stated: in every run that has ended, the log holds one record
   per yielded event and exactly one end-of-run summary, which is its last
   record. *)
C19_OneSummaryPerEndedRun ==
    RunEnded
       => /\ Cardinality(RecsOf({"event"})) = count
          /\ Cardinality(RecsOf(SummaryKinds)) = 1
          /\ Last(log).kind \in SummaryKinds

(* C19 amended: the log always holds exactly one record per yielded event;
   a run that returns has exactly one end-of-run summary, as its last
   record after all event records; a run that ends by raising has no
   summary, its last record being the partial count; before the end there
   is neither; and nothing is logged or requested after the run ended. *)
C19_SummaryClosesReturnedRun ==
    /\ [](/\ Cardinality(RecsOf({"event"})) = count
          /\ pc = "returned"
                => /\ RecsOf(SummaryKinds) = {Len(log)}
                   /\ RecsOf({"critical"}) = {}
                   /\ Len(log) = count + 1
          /\ pc = "raised"
                => /\ RecsOf(SummaryKinds) = {}
                   /\ RecsOf({"critical"}) = {Len(log)}
                   /\ Last(log).n = count
                   /\ Len(log) = count + 1
          /\ ~RunEnded => RecsOf(SummaryKinds \cup {"critical"}) = {})
    /\ [][RunEnded => log' = log /\ nReq' = nReq /\ count' = count]_vars

C19_Witness ==
    /\ pc = "returned"
    /\ count = MaxEvents
    /\ Len(okLog) = 2
    /\ nThrottled >= 1
    /\ Len(log) = MaxEvents + 1
    /\ Last(log).kind = "summary"

(* C20: the no-events marker closes only runs that forwarded no event: a
   log whose last record is the marker holds no event record. *)
C20_NoEventsMeansNoneForwarded ==
    (pc = "returned" /\ Last(log).kind = "no_events")
       => /\ Forwarded(log) = <<>>
          /\ count = 0

====
